---- MODULE Spec2Model ----
(***************************************************************************)
(* CV AI Agent: the Flask application factory (app.py), its configuration  *)
(* loader (config.py) and the post-deploy polling script                   *)
(* (scripts/post_deploy_check.py).                                         *)
(*                                                                         *)
(* Spec      : one Python process importing config.py and app.py, calling  *)
(*             create_app and serving requests through the Flask request   *)
(*             pipeline (before_request, view or error handler,            *)
(*             after_request).                                             *)
(* SpecCheck : one run of post_deploy_check.main against a service whose   *)
(*             answers are chosen by the environment.                      *)
(*                                                                         *)
(* Strings the code transforms (the environment names passed through       *)
(* str.lower) are sequences of one-character strings.  `log` is the        *)
(* sequence of calls made on the module logger "app", each with the level  *)
(* of the call; the handlers and level thresholds that logging.conf or     *)
(* basicConfig attach to that logger are outside the model.                *)
(***************************************************************************)
EXTENDS Integers, Sequences, FiniteSets, TLC

VARIABLES
    environ,      \* os.environ after load_dotenv: a dict, unset keys are absent
    phase,        \* position of the importing process
    error,        \* exception that ended the import, "none" otherwise
    classes,      \* the configuration classes defined by config.py
    ConfigClass,  \* app.py module global: name of the selected class
    log,          \* calls made on logger "app"
    apps,         \* number of application instances create_app has returned
    config,       \* app.config of the instances (all built from ConfigClass)
    rpc,          \* position of the request being handled
    req,          \* the request being handled
    resp,         \* the response being built / returned
    nreq,         \* number of requests received so far
    args,         \* post_deploy_check: parsed command line
    spc,          \* post_deploy_check: position in main / check_endpoint
    ep,           \* post_deploy_check: index of the endpoint being polled
    attempt,      \* post_deploy_check: loop variable of check_endpoint
    all_ok,       \* post_deploy_check: main's flag
    got,          \* post_deploy_check: outcomes received, per endpoint
    slept,        \* post_deploy_check: seconds of each completed time.sleep, per endpoint
    returned,     \* post_deploy_check: value check_endpoint returned, per endpoint
    exit_status   \* post_deploy_check: process exit status, -1 while running

appVars == <<environ, phase, error, classes, ConfigClass, log, apps, config,
             rpc, req, resp, nreq>>
checkVars == <<args, spc, ep, attempt, all_ok, got, slept, returned, exit_status>>
vars == <<environ, phase, error, classes, ConfigClass, log, apps, config,
          rpc, req, resp, nreq,
          args, spc, ep, attempt, all_ok, got, slept, returned, exit_status>>

(***************************************************************************)
(* Bounds                                                                  *)
(***************************************************************************)
MaxRequests == 2
MaxApps == 2
MaxRetries == 3

(***************************************************************************)
(* Strings                                                                 *)
(***************************************************************************)
UpperCase == <<"A","B","C","D","E","F","G","H","I","J","K","L","M",
               "N","O","P","Q","R","S","T","U","V","W","X","Y","Z">>
LowerCase == <<"a","b","c","d","e","f","g","h","i","j","k","l","m",
               "n","o","p","q","r","s","t","u","v","w","x","y","z">>

LowerChar(c) ==
    IF \E i \in DOMAIN UpperCase : UpperCase[i] = c
    THEN LowerCase[CHOOSE i \in DOMAIN UpperCase : UpperCase[i] = c]
    ELSE c

\* str.lower()
lower(s) == [i \in DOMAIN s |-> LowerChar(s[i])]

s_production  == <<"p","r","o","d","u","c","t","i","o","n">>
s_Production  == <<"P","r","o","d","u","c","t","i","o","n">>
s_testing     == <<"t","e","s","t","i","n","g">>
s_TESTING     == <<"T","E","S","T","I","N","G">>
s_development == <<"d","e","v","e","l","o","p","m","e","n","t">>
s_staging     == <<"s","t","a","g","i","n","g">>
s_empty       == <<>>
s_secret      == <<"k","e","y">>
s_db          == <<"d","b">>
s_testdb      == <<"t","d","b">>
s_memory      == <<"s","q","l","i","t","e">>

(***************************************************************************)
(* config.py                                                               *)
(***************************************************************************)
EnvVars == {"FLASK_ENV", "APP_ENV", "SECRET_KEY", "DATABASE_URL", "TEST_DATABASE_URL"}

FlaskEnvValues == {s_empty, s_Production, s_testing, s_staging}
AppEnvValues   == {s_empty, s_production, s_TESTING, s_development}

EnvValues(k) ==
    CASE k = "FLASK_ENV"         -> FlaskEnvValues
      [] k = "APP_ENV"           -> AppEnvValues
      [] k = "SECRET_KEY"        -> {s_secret}
      [] k = "DATABASE_URL"      -> {s_db}
      [] k = "TEST_DATABASE_URL" -> {s_testdb}

AllEnvValues == UNION {EnvValues(k) : k \in EnvVars}

\* the environments the process can be started in
Environs ==
    UNION { {e \in [D -> AllEnvValues] : \A k \in D : e[k] \in EnvValues(k)}
            : D \in SUBSET EnvVars }

\* os.getenv(key, default) / os.environ.get(key, default)
getenv(key, default) == IF key \in DOMAIN environ THEN environ[key] ELSE default

\* require_env with the missing-variable check lost: an empty default is
\* returned instead of raising
require_env_lenient(var_name) ==
    [raised |-> FALSE, value |-> getenv(var_name, s_empty)]

\* require_env: the value, or RuntimeError when os.getenv returns None
require_env(var_name) ==
    IF var_name \notin DOMAIN environ
    THEN [raised |-> TRUE, value |-> s_empty]
    ELSE [raised |-> FALSE, value |-> environ[var_name]]

NoClasses == [c \in {} |-> c]

\* class body of BaseConfig, evaluated top to bottom when config.py is
\* imported: SECRET_KEY first, then DATABASE_URL (PORT and
\* MAX_CONTENT_LENGTH are taken to hold integers)
BaseConfig ==
    LET sk == require_env("SECRET_KEY") IN
    IF sk.raised THEN [raised |-> TRUE, attrs |-> NoClasses]
    ELSE LET db == require_env("DATABASE_URL") IN
         IF db.raised THEN [raised |-> TRUE, attrs |-> NoClasses]
         ELSE [raised |-> FALSE,
               attrs  |-> [SECRET_KEY |-> sk.value, DATABASE_URL |-> db.value]]

\* class attributes of a subclass: its own assignments over the inherited ones
Subclass(own, base) == own @@ base

DevelopmentConfig(base) == Subclass([DEBUG |-> TRUE], base)

TestingConfig(base) ==
    Subclass([TESTING |-> TRUE, DEBUG |-> TRUE,
              DATABASE_URL |-> getenv("TEST_DATABASE_URL", s_memory)], base)

ProductionConfig(base) == Subclass([DEBUG |-> FALSE], base)

(***************************************************************************)
(* app.py: module level                                                    *)
(***************************************************************************)
\* get_config with the two variables consulted in the wrong order
get_config_app_env_first ==
    LET first == getenv("APP_ENV", s_empty)
        env == lower(IF first # s_empty THEN first
                     ELSE getenv("FLASK_ENV", s_development))
    IN  IF env = s_production THEN "ProductionConfig"
        ELSE IF env = s_testing THEN "TestingConfig"
        ELSE "DevelopmentConfig"

\* get_config: os.environ.get("FLASK_ENV") or os.environ.get("APP_ENV",
\* "development"); None and "" are both falsy
get_config ==
    LET first == getenv("FLASK_ENV", s_empty)
        env == lower(IF first # s_empty THEN first
                     ELSE getenv("APP_ENV", s_development))
    IN  IF env = s_production THEN "ProductionConfig"
        ELSE IF env = s_testing THEN "TestingConfig"
        ELSE "DevelopmentConfig"

\* a logger on which every call is recorded at DEBUG
Record_as_debug(level, where, n) == [level |-> "DEBUG", phase |-> where, req |-> n]

\* one call on the module logger
Record(level, where, n) == [level |-> level, phase |-> where, req |-> n]

\* the logger call setup_logging makes, by the state of logging.conf:
\* loaded, missing (basicConfig fallback) or failing to load
LoggingConfStates == {"loaded", "missing", "failed"}

setup_logging(conf) ==
    CASE conf = "loaded"  -> Record("INFO", "import", 0)
      [] conf = "missing" -> Record("WARNING", "import", 0)
      [] conf = "failed"  -> Record("ERROR", "import", 0)

\* create_app logging its two start-up lines below INFO
create_app_log_debug ==
    <<Record("DEBUG", "create", 0), Record("DEBUG", "create", 0)>>

\* the two logger.info calls of create_app
create_app_log ==
    <<Record("INFO", "create", 0), Record("INFO", "create", 0)>>

\* Flask's defaults, overridden by app.config.from_object(config_class)
FlaskDefaults == [DEBUG |-> FALSE, TESTING |-> FALSE]

from_object(class_attrs) == class_attrs @@ FlaskDefaults

NoRequest == [method |-> "-", path |-> "-", fault |-> "-"]
NoResponse == [status |-> 0]

\* import of config.py (app.py line 12): the class bodies run
ImportConfig ==
    /\ phase = "start"
    /\ IF BaseConfig.raised
       THEN /\ phase' = "import_failed"
            /\ error' = "RuntimeError"
            /\ UNCHANGED classes
       ELSE /\ phase' = "config_imported"
            /\ classes' = [BaseConfig        |-> BaseConfig.attrs,
                           DevelopmentConfig |-> DevelopmentConfig(BaseConfig.attrs),
                           TestingConfig     |-> TestingConfig(BaseConfig.attrs),
                           ProductionConfig  |-> ProductionConfig(BaseConfig.attrs)]
            /\ UNCHANGED error
    /\ UNCHANGED <<environ, ConfigClass, log, apps, config, rpc, req, resp, nreq>>
    /\ UNCHANGED checkVars

\* rest of the import of app.py: ConfigClass = get_config(); logger = setup_logging(...)
ImportApp ==
    /\ phase = "config_imported"
    /\ \E conf \in LoggingConfStates :
          log' = Append(log, setup_logging(conf))
    /\ ConfigClass' = get_config
    /\ phase' = "imported"
    /\ UNCHANGED <<environ, error, classes, apps, config, rpc, req, resp, nreq>>
    /\ UNCHANGED checkVars

\* create_app(): every caller in the repository passes no config_class
CreateApp ==
    /\ phase = "imported"
    /\ apps < MaxApps
    /\ rpc \in {"idle", "returned", "propagated"}
    /\ config' = from_object(classes[ConfigClass])
    /\ log' = log \o create_app_log
    /\ apps' = apps + 1
    /\ UNCHANGED <<environ, phase, error, classes, ConfigClass, rpc, req, resp, nreq>>
    /\ UNCHANGED checkVars

(***************************************************************************)
(* app.py: routes, error handlers and hooks registered by create_app       *)
(***************************************************************************)
Paths == {"/", "/health", "/ready", "/info", "/nope"}
Methods == {"GET", "POST"}

\* exception raised while a matched view is dispatched: none, an
\* HTTPException of the given code (abort / werkzeug), or any other exception
Faults == {"none", "http400", "http500", "http503", "exception"}

Requests ==
    {r \in [method : Methods, path : Paths, fault : Faults] :
        r.fault # "none" => (r.method = "GET" /\ r.path \in {"/", "/health", "/ready"})}

\* the routing table with the readiness route missing
url_map_without_ready == ("/" :> "home") @@ ("/health" :> "health_check")

\* @app.route registrations: rule -> endpoint
url_map ==
    ("/" :> "home") @@ ("/health" :> "health_check") @@ ("/ready" :> "readiness_check")

\* methods of a rule registered without methods=
RouteMethods == {"GET", "HEAD", "OPTIONS"}

JsonHeaders == [ContentType |-> "application/json"]

home ==
    [status |-> 200,
     body |-> [service |-> "CV AI Agent", version |-> "1.0.0",
               status |-> "operational", message |-> "Hello! I am your baby AI agent"],
     log |-> <<"DEBUG">>]

\* health_check answering that the service is unavailable
health_check_unavailable ==
    [status |-> 503, body |-> [status |-> "unhealthy"], log |-> <<"DEBUG">>]

health_check ==
    [status |-> 200, body |-> [status |-> "healthy"], log |-> <<"DEBUG">>]

readiness_check ==
    [status |-> 200, body |-> [ready |-> TRUE], log |-> <<"DEBUG">>]

view_functions(endpoint) ==
    CASE endpoint = "home"            -> home
      [] endpoint = "health_check"    -> health_check
      [] endpoint = "readiness_check" -> readiness_check

\* werkzeug.exceptions: name and description by status code
HTTPException(code) ==
    [kind |-> "HTTPException", code |-> code,
     name |-> CASE code = 400 -> "Bad Request"
                [] code = 404 -> "Not Found"
                [] code = 405 -> "Method Not Allowed"
                [] code = 500 -> "Internal Server Error"
                [] code = 503 -> "Service Unavailable",
     description |-> CASE code = 400 -> "The browser (or proxy) sent a request that this server could not understand."
                       [] code = 404 -> "The requested URL was not found on the server."
                       [] code = 405 -> "The method is not allowed for the requested URL."
                       [] code = 500 -> "The server encountered an internal error and was unable to complete your request."
                       [] code = 503 -> "The server is temporarily unable to service your request."]

NoException == [kind |-> "none", code |-> 0]
PlainException == [kind |-> "Exception", code |-> 0]

\* what dispatching the request raises: the routing exception when no rule
\* or method matches, otherwise whatever the view raises
Raised(r) ==
    IF r.path \notin DOMAIN url_map THEN HTTPException(404)
    ELSE IF r.method \notin RouteMethods THEN HTTPException(405)
    ELSE CASE r.fault = "none"      -> NoException
           [] r.fault = "http400"   -> HTTPException(400)
           [] r.fault = "http500"   -> HTTPException(500)
           [] r.fault = "http503"   -> HTTPException(503)
           [] r.fault = "exception" -> PlainException

\* @app.errorhandler registrations: by status code, and by exception class
CodeHandlers == (404 :> "not_found") @@ (500 :> "internal_error")
ClassHandler == "handle_http_exception"

\* handler lookup that asks the class registrations before the code ones
find_error_handler_class_first(e) == ClassHandler

\* Flask's lookup: the handler registered for the exception's code, then the
\* one registered for its class
find_error_handler(e) ==
    IF e.code \in DOMAIN CodeHandlers THEN CodeHandlers[e.code] ELSE ClassHandler

not_found(e, r) ==
    [status |-> 404,
     body |-> [error |-> "Not Found", message |-> "Resource does not exist",
               path |-> r.path],
     log |-> <<"WARNING">>]

internal_error(e, r) ==
    [status |-> 500,
     body |-> [error |-> "Internal Server Error", message |-> "Unexpected error occurred"],
     log |-> <<"ERROR">>]

\* handle_http_exception with the message left out of the body
handle_http_exception_no_message(e, r) ==
    [status |-> e.code,
     body |-> [error |-> e.name, code |-> e.code],
     log |-> IF e.code >= 500 THEN <<"ERROR">>
             ELSE IF e.code >= 400 THEN <<"WARNING">> ELSE <<>>]

handle_http_exception(e, r) ==
    [status |-> e.code,
     body |-> [error |-> e.name, message |-> e.description, code |-> e.code],
     log |-> IF e.code >= 500 THEN <<"ERROR">>
             ELSE IF e.code >= 400 THEN <<"WARNING">> ELSE <<>>]

error_handlers(name, e, r) ==
    CASE name = "not_found"             -> not_found(e, r)
      [] name = "internal_error"        -> internal_error(e, r)
      [] name = "handle_http_exception" -> handle_http_exception(e, r)

\* the logger calls of one request handler, appended to the log
Logged(levels, n) == [i \in DOMAIN levels |-> Record(levels[i], "request", n)]

\* response object built from what a view or error handler returns (jsonify)
make_response(rv, by) ==
    [status |-> rv.status, body |-> rv.body, headers |-> JsonHeaders, handler |-> by]

\* PROPAGATE_EXCEPTIONS is unset: exceptions propagate when testing or debug
propagate_exceptions == config.TESTING \/ config.DEBUG

\* level of the after_request log line for a status code
after_request_level(status_code) ==
    IF status_code >= 500 THEN "ERROR"
    ELSE IF status_code >= 400 THEN "WARNING" ELSE "DEBUG"

\* after_request setting only the first of its two headers
after_request_no_version(response) ==
    [response EXCEPT !.headers = [XService |-> "CV-AI-Agent"] @@ response.headers]

\* after_request: two headers added, status and body untouched
after_request(response) ==
    [response EXCEPT !.headers =
        [XService |-> "CV-AI-Agent", XVersion |-> "1.0.0"] @@ response.headers]

\* a request arrives at an application instance; before_request runs
BeforeRequest ==
    /\ apps >= 1
    /\ rpc \in {"idle", "returned", "propagated"}
    /\ nreq < MaxRequests
    /\ \E r \in Requests : req' = r
    /\ nreq' = nreq + 1
    /\ resp' = NoResponse
    /\ log' = log \o Logged(<<"DEBUG">>, nreq + 1)
    /\ rpc' = "dispatch"
    /\ UNCHANGED <<environ, phase, error, classes, ConfigClass, apps, config>>
    /\ UNCHANGED checkVars

\* the matched view function runs and returns
DispatchView ==
    /\ rpc = "dispatch"
    /\ Raised(req).kind = "none"
    /\ LET endpoint == url_map[req.path]
           rv == view_functions(endpoint)
       IN  /\ resp' = make_response(rv, endpoint)
           /\ log' = log \o Logged(rv.log, nreq)
    /\ rpc' = "after"
    /\ UNCHANGED <<environ, phase, error, classes, ConfigClass, apps, config, req, nreq>>
    /\ UNCHANGED checkVars

\* an HTTPException (routing or raised by the view) goes to its error handler
DispatchHTTPException ==
    /\ rpc = "dispatch"
    /\ Raised(req).kind = "HTTPException"
    /\ LET e == Raised(req)
           h == find_error_handler(e)
           rv == error_handlers(h, e, req)
       IN  /\ resp' = make_response(rv, h)
           /\ log' = log \o Logged(rv.log, nreq)
    /\ rpc' = "after"
    /\ UNCHANGED <<environ, phase, error, classes, ConfigClass, apps, config, req, nreq>>
    /\ UNCHANGED checkVars

\* any other exception: re-raised to the server when exceptions propagate,
\* otherwise wrapped in InternalServerError and given to its handler
DispatchException ==
    /\ rpc = "dispatch"
    /\ Raised(req).kind = "Exception"
    /\ IF propagate_exceptions
       THEN /\ rpc' = "propagated"
            /\ UNCHANGED <<resp, log>>
       ELSE LET e == HTTPException(500)
                h == find_error_handler(e)
                rv == error_handlers(h, e, req)
            IN  /\ resp' = make_response(rv, h)
                /\ log' = log \o Logged(rv.log, nreq)
                /\ rpc' = "after"
    /\ UNCHANGED <<environ, phase, error, classes, ConfigClass, apps, config, req, nreq>>
    /\ UNCHANGED checkVars

\* after_request runs on the response of the view or the error handler,
\* and the response is returned
AfterRequest ==
    /\ rpc = "after"
    /\ resp' = after_request(resp)
    /\ log' = log \o Logged(<<after_request_level(resp.status)>>, nreq)
    /\ rpc' = "returned"
    /\ UNCHANGED <<environ, phase, error, classes, ConfigClass, apps, config, req, nreq>>
    /\ UNCHANGED checkVars

(***************************************************************************)
(* scripts/post_deploy_check.py                                            *)
(***************************************************************************)
endpoints == <<"/health", "/ready">>

\* --retries and --delay are type=int: any integer is accepted
RetriesValues == -1 .. MaxRetries
DelayValues == {-1, 0, 2}

Response(status_code) == [kind |-> "response", status |-> status_code]
RequestException == [kind |-> "exception", status |-> 0]

\* what one requests.get(url, timeout=5) can end in
Outcomes == {Response(200), Response(503), RequestException}

\* success test accepting every response that is not an exception
is_ok_any_response(outcome) == outcome.kind = "response"

\* response.status_code == 200, inside the try
is_ok(outcome) == outcome.kind = "response" /\ outcome.status = 200

\* range(1, retries + 1) running one iteration too far
in_range_one_more(a, retries) == 1 <= a /\ a <= retries + 1

\* a loop whose body runs once before its bound is looked at
in_range_at_least_once(a, retries) == a = 1 \/ (1 <= a /\ a <= retries)

\* attempt in range(1, retries + 1)
in_range(a, retries) == 1 <= a /\ a <= retries

\* main keeping only the result of the endpoint polled last
all_ok_last_only(prev, ok) == ok

\* main: all_ok is cleared by a failed endpoint and never set again
fold_all_ok(prev, ok) == IF ~ok THEN FALSE ELSE prev

NoArgs == [retries |-> 0, delay |-> 0]

\* a sleep that backs off with the attempt number
sleep_seconds_backoff(delay, a) == delay * a

\* time.sleep(delay): the argument does not depend on the attempt
sleep_seconds(delay, a) == delay

\* main leaving its loop at the first endpoint that fails
Return_break_on_failure(ok) ==
    /\ returned' = Append(returned, ok)
    /\ all_ok' = fold_all_ok(all_ok, ok)
    /\ ep' = IF ok THEN ep + 1 ELSE Len(endpoints) + 1
    /\ attempt' = 0
    /\ spc' = "main"

\* check_endpoint returns `ok` to main, which updates all_ok and moves on
Return(ok) ==
    /\ returned' = Append(returned, ok)
    /\ all_ok' = fold_all_ok(all_ok, ok)
    /\ ep' = ep + 1
    /\ attempt' = 0
    /\ spc' = "main"

\* the for loop takes its next value, or is exhausted and False is returned
NextAttempt ==
    IF in_range(attempt + 1, args.retries)
    THEN /\ attempt' = attempt + 1
         /\ spc' = "get"
         /\ UNCHANGED <<returned, all_ok, ep>>
    ELSE Return(FALSE)

\* main calls check_endpoint for the next endpoint; the loop is entered, or
\* is empty and False is returned at once
CallCheckEndpoint ==
    /\ spc = "main"
    /\ ep <= Len(endpoints)
    /\ NextAttempt
    /\ UNCHANGED <<args, got, slept, exit_status>>
    /\ UNCHANGED appVars

\* one requests.get and the code up to the sleep
Get ==
    /\ spc = "get"
    /\ \E outcome \in Outcomes :
          /\ got' = [got EXCEPT ![ep] = Append(@, outcome)]
          /\ IF is_ok(outcome) THEN Return(TRUE)
             ELSE IF attempt < args.retries
                  THEN /\ spc' = "sleep"
                       /\ UNCHANGED <<returned, all_ok, ep, attempt>>
                  ELSE NextAttempt
    /\ UNCHANGED <<args, slept, exit_status>>
    /\ UNCHANGED appVars

\* time.sleep(delay): raises ValueError on a negative delay, which nothing
\* catches, so the interpreter exits with status 1
Sleep ==
    /\ spc = "sleep"
    /\ IF args.delay < 0
       THEN /\ spc' = "exited"
            /\ exit_status' = 1
            /\ UNCHANGED <<slept, returned, all_ok, ep, attempt>>
       ELSE /\ slept' = [slept EXCEPT ![ep] = Append(@, sleep_seconds(args.delay, attempt))]
            /\ NextAttempt
            /\ UNCHANGED exit_status
    /\ UNCHANGED <<args, got>>
    /\ UNCHANGED appVars

\* end of main: sys.exit(0) or sys.exit(1)
Exit ==
    /\ spc = "main"
    /\ ep > Len(endpoints)
    /\ exit_status' = IF all_ok THEN 0 ELSE 1
    /\ spc' = "exited"
    /\ UNCHANGED <<args, ep, attempt, all_ok, got, slept, returned>>
    /\ UNCHANGED appVars

\* the script is not running
CheckIdle ==
    /\ args = NoArgs
    /\ spc = "off"
    /\ ep = 0
    /\ attempt = 0
    /\ all_ok = TRUE
    /\ got = <<>>
    /\ slept = <<>>
    /\ returned = <<>>
    /\ exit_status = -1

\* the application process is not part of the run
AppOff ==
    /\ environ = NoClasses
    /\ phase = "off"
    /\ error = "none"
    /\ classes = NoClasses
    /\ ConfigClass = "none"
    /\ log = <<>>
    /\ apps = 0
    /\ config = FlaskDefaults
    /\ rpc = "off"
    /\ req = NoRequest
    /\ resp = NoResponse
    /\ nreq = 0

\* main after parse_args: endpoints set, all_ok = True
InitCheck ==
    /\ args \in [retries : RetriesValues, delay : DelayValues]
    /\ spc = "main"
    /\ ep = 1
    /\ attempt = 0
    /\ all_ok = TRUE
    /\ got = [i \in DOMAIN endpoints |-> <<>>]
    /\ slept = [i \in DOMAIN endpoints |-> <<>>]
    /\ returned = <<>>
    /\ exit_status = -1
    /\ AppOff

NextCheck ==
    \/ CallCheckEndpoint
    \/ Get
    \/ Sleep
    \/ Exit

SpecCheck == InitCheck /\ [][NextCheck]_vars

\* the script is one sequential thread: every requests.get returns or
\* raises within its timeout and every time.sleep returns, so a step that
\* is enabled is taken
SpecCheckFair == SpecCheck /\ WF_vars(NextCheck)

Init ==
    /\ environ \in Environs
    /\ phase = "start"
    /\ error = "none"
    /\ classes = NoClasses
    /\ ConfigClass = "none"
    /\ log = <<>>
    /\ apps = 0
    /\ config = FlaskDefaults
    /\ rpc = "idle"
    /\ req = NoRequest
    /\ resp = NoResponse
    /\ nreq = 0
    /\ CheckIdle

Next ==
    \/ ImportConfig
    \/ ImportApp
    \/ CreateApp
    \/ BeforeRequest
    \/ DispatchView
    \/ DispatchHTTPException
    \/ DispatchException
    \/ AfterRequest

Spec == Init /\ [][Next]_vars

(***************************************************************************)
(* Properties                                                              *)
(***************************************************************************)
Got200(i) == \E j \in 1 .. Len(got[i]) : j <= args.retries /\ got[i][j] = Response(200)

\* C1: main exits with status 0 if and only if each polled endpoint
\* (/health and /ready) answered 200 on at least one of its first `retries`
\* attempts; in every other case it exits with status 1.
C1_ExitStatus ==
    spc = "exited" =>
        /\ exit_status \in {0, 1}
        /\ exit_status = 0 <=> \A i \in DOMAIN endpoints : Got200(i)

C1_Witness ==
    /\ spc = "exited"
    /\ exit_status = 0
    /\ Len(got[1]) >= 2
    /\ Len(got[2]) >= 2

Budget == IF args.retries > 0 THEN args.retries ELSE 0

PlainGet == rpc = "returned" /\ req.method = "GET" /\ req.fault = "none"

IsJson(r) == r.headers.ContentType = "application/json"

LoggedAt(level, n) ==
    \E i \in 1 .. Len(log) :
        log[i].level = level /\ log[i].phase = "request" /\ log[i].req = n

\* C3: in every application instance and after any earlier requests,
\* GET /health returns 200 with a JSON body holding status = "healthy" and
\* GET /ready returns 200 with a JSON body holding ready = true.
C3_HealthReady ==
    PlainGet =>
        /\ req.path = "/health" =>
              /\ resp.status = 200
              /\ IsJson(resp)
              /\ "status" \in DOMAIN resp.body
              /\ resp.body.status = "healthy"
        /\ req.path = "/ready" =>
              /\ resp.status = 200
              /\ IsJson(resp)
              /\ "ready" \in DOMAIN resp.body
              /\ resp.body.ready = TRUE

C3_Witness ==
    /\ PlainGet
    /\ req.path = "/health"
    /\ resp.status = 200
    /\ nreq >= 2
    /\ apps = 2
    /\ LoggedAt("WARNING", 1)

RegisteredPaths == {"/", "/health", "/ready"}

\* C4: a request to a path with no registered route returns 404 with a JSON
\* body holding the keys error, message and path, path being the requested
\* path, and the response comes from the 404 handler, not the generic one.
C4_NotFound ==
    (rpc = "returned" /\ req.path \notin RegisteredPaths) =>
        /\ resp.status = 404
        /\ IsJson(resp)
        /\ {"error", "message", "path"} \subseteq DOMAIN resp.body
        /\ resp.body.path = req.path
        /\ resp.handler = "not_found"

C4_Witness ==
    /\ rpc = "returned"
    /\ req.path = "/nope"
    /\ req.method = "POST"
    /\ resp.status = 404

RequiredMissing == "SECRET_KEY" \notin DOMAIN environ \/ "DATABASE_URL" \notin DOMAIN environ

ErrorHandlerNames == {"not_found", "internal_error", "handle_http_exception"}

FromErrorHandler == rpc \in {"after", "returned"} /\ resp.handler \in ErrorHandlerNames

C8_Original ==
    (PlainGet /\ req.path \in {"/", "/health", "/ready", "/info"}) =>
        /\ resp.status >= 200
        /\ resp.status < 300
        /\ IsJson(resp)

\* C8, amended: GET on each of /, /health and /ready is answered with a
\* successful JSON response (banner, liveness, readiness); /info is not
\* routed and is answered by the 404 handler.
C8_Routes ==
    PlainGet =>
        /\ req.path \in {"/", "/health", "/ready"} =>
              /\ resp.status = 200
              /\ IsJson(resp)
        /\ req.path = "/" => {"service", "version", "status"} \subseteq DOMAIN resp.body
        /\ req.path = "/health" => "status" \in DOMAIN resp.body
        /\ req.path = "/ready" => "ready" \in DOMAIN resp.body
        /\ req.path = "/info" => (resp.status = 404 /\ resp.handler = "not_found")

C8_Witness ==
    /\ PlainGet
    /\ req.path = "/info"
    /\ resp.status = 404

EffectiveName ==
    IF "FLASK_ENV" \in DOMAIN environ /\ environ["FLASK_ENV"] # s_empty
    THEN environ["FLASK_ENV"]
    ELSE IF "APP_ENV" \in DOMAIN environ THEN environ["APP_ENV"] ELSE s_development

\* C10: get_config selects by the effective environment name (FLASK_ENV when
\* set and non-empty, else APP_ENV, else "development"): ProductionConfig iff
\* it is "production" in any letter case, TestingConfig iff "testing",
\* DevelopmentConfig for every other name.
C10_GetConfig ==
    phase = "imported" =>
        /\ ConfigClass = "ProductionConfig" <=> EffectiveName \in {s_production, s_Production}
        /\ ConfigClass = "TestingConfig" <=> EffectiveName \in {s_testing, s_TESTING}
        /\ ConfigClass = "DevelopmentConfig" <=>
              EffectiveName \notin {s_production, s_Production, s_testing, s_TESTING}

C10_Witness ==
    /\ phase = "imported"
    /\ "FLASK_ENV" \in DOMAIN environ
    /\ environ["FLASK_ENV"] = s_Production
    /\ "APP_ENV" \in DOMAIN environ
    /\ environ["APP_ENV"] = s_TESTING
    /\ ConfigClass = "ProductionConfig"

Attempts == Len(got[1]) + Len(got[2])

\* C11 as stated: the script always exits with status 0 or 1, after at most
\* 2 * retries GET attempts in total.
C11_Original ==
    /\ <>(spc = "exited" /\ exit_status \in {0, 1})
    /\ [](spc = "exited" => Attempts <= 2 * args.retries)

\* C11, amended: the script always exits with status 0 or 1, after at most
\* 2 * max(retries, 0) GET attempts in total (none when retries is negative).
C11_Terminates ==
    /\ <>(spc = "exited" /\ exit_status \in {0, 1})
    /\ [](Attempts <= 2 * Budget)
    /\ [](spc = "exited" => [](spc = "exited"))

C11_Witness ==
    /\ spc = "exited"
    /\ args.retries >= 2
    /\ Attempts = 2 * args.retries

\* C12: main polls /health first and /ready second and never short-circuits:
\* no attempt on /ready is made before check_endpoint has returned for
\* /health, and when /health has exhausted its retries (the exit status then
\* being bound to be 1) /ready is still polled with its full budget before
\* the script exits.
C12_Order ==
    spc # "off" =>
        /\ Len(got[2]) > 0 => Len(returned) >= 1
        /\ ep >= 2 => Len(returned) >= 1
        /\ (Len(returned) >= 1 /\ ~returned[1]) =>
              /\ ~all_ok
              /\ spc = "exited" =>
                    /\ exit_status = 1
                    /\ Len(returned) = 2
                    /\ returned[2] \/ Len(got[2]) = Budget

C12_Witness ==
    /\ spc = "exited"
    /\ returned = <<FALSE, FALSE>>
    /\ args.retries >= 2
    /\ Len(got[1]) = args.retries
    /\ Len(got[2]) = args.retries

\* attempt j on endpoint i failed and was not the last permitted one
FailedNotLast(i, j) == got[i][j] # Response(200) /\ j < args.retries

\* the time.sleep call that follows attempt j on endpoint i is still to come
SleepPending(i, j) == i = ep /\ spc = "sleep" /\ j = Len(got[i])

\* time.sleep raised: the script ended inside check_endpoint
Crashed == spc = "exited" /\ Len(returned) < Len(endpoints)

AllSleepsFixed == \A i \in DOMAIN endpoints : \A k \in DOMAIN slept[i] : slept[i][k] = args.delay

NoOtherSleeps ==
    \A i \in DOMAIN endpoints :
        Len(slept[i]) <= Cardinality({j \in 1 .. Len(got[i]) : FailedNotLast(i, j)})

\* C13 as stated: a sleep of `delay` follows each failed attempt except the
\* last permitted one, none follows a successful or the final failed
\* attempt, one call sleeps at most retries - 1 times, every sleep lasts
\* `delay`.
C13_Original ==
    spc # "off" =>
        /\ AllSleepsFixed
        /\ NoOtherSleeps
        /\ \A i \in DOMAIN endpoints :
              /\ i <= Len(returned) => Len(slept[i]) <= args.retries - 1
              /\ \A j \in 1 .. Len(got[i]) :
                    (FailedNotLast(i, j) /\ ~SleepPending(i, j)) => Len(slept[i]) >= j

\* C13, amended: time.sleep(delay) is called after each failed attempt
\* except the last permitted one and after no successful or final failed
\* attempt; one call of check_endpoint completes at most max(retries - 1, 0)
\* sleeps, each of exactly `delay` seconds; with a negative delay the call
\* raises instead of sleeping and the script ends there with status 1.
C13_Sleeps ==
    spc # "off" =>
        /\ AllSleepsFixed
        /\ NoOtherSleeps
        /\ Crashed => (args.delay < 0 /\ exit_status = 1)
        /\ \A i \in DOMAIN endpoints :
              /\ Len(slept[i]) <= (IF args.retries > 1 THEN args.retries - 1 ELSE 0)
              /\ \A j \in 1 .. Len(got[i]) :
                    (FailedNotLast(i, j) /\ ~SleepPending(i, j)) =>
                        \/ Len(slept[i]) >= j
                        \/ (Crashed /\ i = ep /\ j = Len(got[i]))

C13_Witness ==
    /\ spc = "exited"
    /\ args.retries = 3
    /\ args.delay = 2
    /\ slept[1] = <<2, 2>>
    /\ returned = <<FALSE, TRUE>>
    /\ Len(slept[2]) = 1

\* C14: with retries 0 or negative, check_endpoint makes no GET attempt and
\* no sleep and returns False for each endpoint, so the script exits with
\* status 1 without contacting anything, whatever the service would answer.
C14_NoRetries ==
    (spc # "off" /\ args.retries <= 0) =>
        /\ spc \in {"main", "exited"}
        /\ \A i \in DOMAIN endpoints : got[i] = <<>> /\ slept[i] = <<>>
        /\ \A i \in DOMAIN returned : ~returned[i]
        /\ spc = "exited" => (exit_status = 1 /\ returned = <<FALSE, FALSE>>)

C14_Witness ==
    /\ args.retries = -1
    /\ spc = "exited"
    /\ exit_status = 1
    /\ returned = <<FALSE, FALSE>>
    /\ Attempts = 0

\* C15: every response the application returns, for every route and status
\* (the 404, 500 and generic error responses included), carries
\* X-Service = "CV-AI-Agent" and X-Version = "1.0.0", and the after_request
\* hook leaves the status code and the body as it found them.
C15_Headers ==
    /\ [](rpc = "returned" =>
            /\ {"XService", "XVersion"} \subseteq DOMAIN resp.headers
            /\ resp.headers.XService = "CV-AI-Agent"
            /\ resp.headers.XVersion = "1.0.0")
    /\ [][(rpc = "after" /\ rpc' = "returned") =>
            (resp'.status = resp.status /\ resp'.body = resp.body)]_vars

C15_Witness ==
    /\ rpc = "returned"
    /\ resp.handler = "internal_error"
    /\ resp.status = 500
    /\ resp.headers.XService = "CV-AI-Agent"
    /\ resp.headers.XVersion = "1.0.0"
    /\ nreq >= 2
    /\ LoggedAt("WARNING", 1)

====
